---- MODULE Spec2Model ----
(***************************************************************************)
(* Model of src/lib/terms.h: the homogeneous term registry term_set<T>,    *)
(* the terms aggregate of five registries, the factors container and the   *)
(* evaluation contracts of charge_dependent and usable terms.              *)
(*                                                                         *)
(* fl values are modelled by integers; every comparison and every          *)
(* arithmetic expression is kept in the shape the source gives it.         *)
(***************************************************************************)
EXTENDS Integers, Sequences, FiniteSets, TLC

VARIABLES enabled, fun, hist, t, added, impl, res

vars == <<enabled, fun, hist, t, added, impl, res>>

(***************************************************************************)
(* Bounds of the model.                                                    *)
(***************************************************************************)
\* number of add calls made on the single registry
MaxTerms == 3
\* number of add calls made on the aggregate
MaxAdds == 3
\* longest flv handed to term_set::filter and to factors::eval
MaxLen == 3

(***************************************************************************)
(* Values.                                                                 *)
(***************************************************************************)
\* the unsigned weights passed to add
Weights == {0, 1}
\* fl values stored in an flv
Values == {1, 2}
\* term objects of a kind that has a cutoff (distance_additive, usable)
Objects ==
  { [name |-> "gauss", cutoff |-> 2],
    [name |-> "repulsion", cutoff |-> 4],
    [name |-> "custom", cutoff |-> -1] }
\* a T* is either the null pointer or points to a freshly allocated object
NULL == <<>>
New(o) == <<o>>
Deref(p) == p[1]
Ptrs == {NULL} \cup {New(o) : o \in Objects}

\* an empty registry: both vectors default constructed
EmptySet == [enabled |-> <<>>, fun |-> <<>>]

(***************************************************************************)
(* VINA_CHECK(P): the fatal assertion; it throws when P is false, so the   *)
(* statements after it do not run.                                         *)
(***************************************************************************)
VINA_CHECK(P) == IF P THEN "pass" ELSE "throw"

(***************************************************************************)
(* term_set<T>                                                             *)
(***************************************************************************)
\* faulty variant: the flag is derived with >= instead of >
term_set_add_ge(s, e, f) ==
  IF f = NULL
    THEN [enabled |-> Append(s.enabled, e >= 0), fun |-> s.fun, threw |-> TRUE]
    ELSE [enabled |-> Append(s.enabled, e >= 0),
          fun |-> Append(s.fun, Deref(f)), threw |-> FALSE]

\* add: enabled.push_back(e > 0); fun.push_back(f).  ptr_vector::push_back
\* rejects a null pointer by throwing, after the flag has been pushed.
term_set_add(s, e, f) ==
  IF f = NULL
    THEN [enabled |-> Append(s.enabled, e > 0), fun |-> s.fun, threw |-> TRUE]
    ELSE [enabled |-> Append(s.enabled, e > 0),
          fun |-> Append(s.fun, Deref(f)), threw |-> FALSE]

\* the loop of num_enabled, over the indices of enabled
RECURSIVE num_enabled_loop(_, _, _)
num_enabled_loop(en, i, tmp) ==
  IF i > Len(en) THEN tmp
  ELSE num_enabled_loop(en, i + 1, IF en[i] THEN tmp + 1 ELSE tmp)

\* num_enabled: no check of the sizes
term_set_num_enabled(s) ==
  [st |-> "ok", ret |-> num_enabled_loop(s.enabled, 1, 0)]

\* the loop of get_names, over the indices of fun
RECURSIVE get_names_loop(_, _, _, _)
get_names_loop(s, enabled_only, i, out) ==
  IF i > Len(s.fun) THEN out
  ELSE get_names_loop(s, enabled_only, i + 1,
         IF ~enabled_only \/ s.enabled[i]
           THEN Append(out, s.fun[i].name) ELSE out)

\* faulty variant: get_names clears out before it appends
term_set_get_names_clear(s, enabled_only, out) ==
  IF VINA_CHECK(Len(s.enabled) = Len(s.fun)) = "throw"
    THEN [st |-> "fail", out |-> out]
    ELSE [st |-> "ok", out |-> get_names_loop(s, enabled_only, 1, <<>>)]

term_set_get_names(s, enabled_only, out) ==
  IF VINA_CHECK(Len(s.enabled) = Len(s.fun)) = "throw"
    THEN [st |-> "fail", out |-> out]
    ELSE [st |-> "ok", out |-> get_names_loop(s, enabled_only, 1, out)]

\* The loop of filter, over the indices of enabled.  in is the position of
\* the iterator in v (1 is v.begin(), Len(v) + 1 is v.end()).  *in at or
\* beyond v.end() is undefined: the read faults or yields any value.
RECURSIVE filter_loop(_, _, _, _, _)
filter_loop(en, v, in, out, i) ==
  IF i > Len(en) THEN {[st |-> "ok", out |-> out, in |-> in]}
  ELSE IF en[i]
    THEN IF in \in 1..Len(v)
           THEN filter_loop(en, v, in + 1, Append(out, v[in]), i + 1)
           ELSE {[st |-> "crash", out |-> out, in |-> in]} \cup
                UNION { filter_loop(en, v, in + 1, Append(out, g), i + 1) :
                        g \in Values }
    ELSE filter_loop(en, v, in + 1, out, i + 1)

\* faulty variant: the iterator advances only past the values that are kept
RECURSIVE filter_loop_skip(_, _, _, _, _)
filter_loop_skip(en, v, in, out, i) ==
  IF i > Len(en) THEN {[st |-> "ok", out |-> out, in |-> in]}
  ELSE IF en[i]
    THEN IF in \in 1..Len(v)
           THEN filter_loop_skip(en, v, in + 1, Append(out, v[in]), i + 1)
           ELSE {[st |-> "crash", out |-> out, in |-> in]}
    ELSE filter_loop_skip(en, v, in, out, i + 1)

term_set_filter_skip(s, v, in, out) ==
  IF VINA_CHECK(Len(s.enabled) = Len(s.fun)) = "throw"
    THEN {[st |-> "fail", out |-> out, in |-> in]}
    ELSE filter_loop_skip(s.enabled, v, in, out, 1)

\* filter: the set of outcomes the call can have
term_set_filter(s, v, in, out) ==
  IF VINA_CHECK(Len(s.enabled) = Len(s.fun)) = "throw"
    THEN {[st |-> "fail", out |-> out, in |-> in]}
    ELSE filter_loop(s.enabled, v, in, out, 1)

\* (std::max)(a, b)
std_max(a, b) == IF a < b THEN b ELSE a

\* the loop of max_cutoff, over the indices of fun
RECURSIVE max_cutoff_loop(_, _, _)
max_cutoff_loop(fn, i, tmp) ==
  IF i > Len(fn) THEN tmp
  ELSE max_cutoff_loop(fn, i + 1, std_max(tmp, fn[i].cutoff))

\* faulty variant: only the enabled terms are looked at
RECURSIVE max_cutoff_loop_enabled(_, _, _)
max_cutoff_loop_enabled(s, i, tmp) ==
  IF i > Len(s.fun) THEN tmp
  ELSE max_cutoff_loop_enabled(s, i + 1,
         IF i <= Len(s.enabled) /\ s.enabled[i]
           THEN std_max(tmp, s.fun[i].cutoff) ELSE tmp)

term_set_max_cutoff_enabled(s) ==
  [st |-> "ok", ret |-> max_cutoff_loop_enabled(s, 1, 0)]

\* max_cutoff: no check of the sizes; tmp starts at 0
term_set_max_cutoff(s) ==
  [st |-> "ok", ret |-> max_cutoff_loop(s.fun, 1, 0)]

term_set_size(s) == Len(s.fun)

\* the registry held in the variables enabled and fun
Registry == [enabled |-> enabled, fun |-> fun]

\* the flv of n values base + 1, ..., base + n
Ramp(n, base) == [k \in 1..n |-> base + k]

(***************************************************************************)
(* The registry as a state machine: add, then the aggregate queries.       *)
(***************************************************************************)
Idle == [op |-> "none"]

InitRegistry ==
  /\ enabled = <<>>
  /\ fun = <<>>
  /\ hist = <<>>

InitTerms ==
  /\ t = [distance_additive_terms |-> EmptySet, usable_terms |-> EmptySet,
          additive_terms |-> EmptySet, intermolecular_terms |-> EmptySet,
          conf_independent_terms |-> EmptySet]
  /\ added = [distance_additive_terms |-> 0, usable_terms |-> 0,
              additive_terms |-> 0, intermolecular_terms |-> 0,
              conf_independent_terms |-> 0]

Init ==
  /\ InitRegistry
  /\ InitTerms
  /\ impl = <<>>
  /\ res = Idle

Add ==
  /\ Len(hist) < MaxTerms
  /\ \E e \in Weights, f \in Ptrs :
       LET r == term_set_add(Registry, e, f) IN
         /\ enabled' = r.enabled
         /\ fun' = r.fun
         /\ hist' = Append(hist, [e |-> e, f |-> f])
         /\ res' = [op |-> "add", st |-> IF r.threw THEN "fail" ELSE "ok"]
  /\ UNCHANGED <<t, added, impl>>

NumEnabled ==
  /\ res' = [op |-> "num_enabled"] @@ term_set_num_enabled(Registry)
  /\ UNCHANGED <<enabled, fun, hist, t, added, impl>>

GetNames ==
  /\ \E enabled_only \in BOOLEAN, out \in {<<>>, <<"prior">>} :
       res' = [op |-> "get_names", enabled_only |-> enabled_only, out0 |-> out]
                @@ term_set_get_names(Registry, enabled_only, out)
  /\ UNCHANGED <<enabled, fun, hist, t, added, impl>>

Filter ==
  /\ \E n \in 0..MaxLen, base \in {0, 1}, out \in {<<>>, <<2>>} :
       \E r \in term_set_filter(Registry, Ramp(n, base), 1, out) :
         res' = [op |-> "filter", v |-> Ramp(n, base), in0 |-> 1,
                 out0 |-> out] @@ r
  /\ UNCHANGED <<enabled, fun, hist, t, added, impl>>

MaxCutoff ==
  /\ res' = [op |-> "max_cutoff"] @@ term_set_max_cutoff(Registry)
  /\ UNCHANGED <<enabled, fun, hist, t, added, impl>>

Next == Add \/ NumEnabled \/ GetNames \/ Filter \/ MaxCutoff

Spec == Init /\ [][Next]_vars

(***************************************************************************)
(* Properties of the registry.                                             *)
(***************************************************************************)
\* the enabled positions of a flag vector, in ascending order
EnabledIdx(en) == {k \in 1..Len(en) : en[k]}
NthOf(S, j) == CHOOSE x \in S : Cardinality({y \in S : y < x}) = j - 1
Kept(en) == [j \in 1..Cardinality(EnabledIdx(en)) |-> NthOf(EnabledIdx(en), j)]
OnlyTermsAdded == \A k \in 1..Len(hist) : hist[k].f # NULL
SizesAgree == Len(enabled) = Len(fun)
SetMax(S) == CHOOSE x \in S : \A y \in S : y <= x

\* C1: after any sequence of add(weight, term) calls from the empty
\* registry there are as many flags as terms, flag k is true exactly when
\* the k-th weight was greater than 0, and terms and flags are in the order
\* of the calls.
C1_AddKeepsFlagsAndTerms ==
  OnlyTermsAdded =>
    /\ Len(enabled) = Len(fun)
    /\ Len(fun) = Len(hist)
    /\ \A k \in 1..Len(hist) :
         /\ enabled[k] = (hist[k].e > 0)
         /\ fun[k] = Deref(hist[k].f)

C1_Witness ==
  /\ OnlyTermsAdded
  /\ Len(hist) = 3
  /\ hist[1].e = 1 /\ hist[2].e = 0 /\ hist[3].e = 1
  /\ hist[1].f # hist[2].f /\ hist[2].f # hist[3].f

\* C2: with as many flags as terms, filter(in, out) advances in by exactly
\* size() and appends to out exactly num_enabled() values, the input values
\* at the enabled positions in their order; the values at disabled positions
\* are passed over and what out held before stays in front.
C2_FilterKeepsEnabledValues ==
  (res.op = "filter" /\ SizesAgree) =>
    LET n == term_set_size(Registry)
        kept == Kept(enabled)
        m == Len(res.out0)
    IN
      /\ res.st # "fail"
      /\ Len(res.v) >= res.in0 - 1 + n => res.st = "ok"
      /\ res.st = "ok" =>
           /\ res.in = res.in0 + n
           /\ Len(res.out) = m + term_set_num_enabled(Registry).ret
           /\ Len(res.out) = m + Len(kept)
           /\ SubSeq(res.out, 1, m) = res.out0
           /\ \A j \in 1..Len(kept) :
                res.in0 - 1 + kept[j] <= Len(res.v) =>
                  res.out[m + j] = res.v[res.in0 - 1 + kept[j]]

C2_Witness ==
  /\ res.op = "filter" /\ res.st = "ok" /\ SizesAgree
  /\ enabled = <<FALSE, TRUE, TRUE>>
  /\ res.v = <<1, 2, 3>>
  /\ res.out0 = <<2>>
  /\ res.out = <<2, 2, 3>>

\* C4: each of num_enabled, get_names, filter and max_cutoff checks that
\* there are as many flags as terms before it produces a result, and fails
\* when the two differ.
C4_EveryQueryChecksSizes ==
  (res.op \in {"num_enabled", "get_names", "filter", "max_cutoff"}
     /\ ~SizesAgree) => res.st = "fail"

\* C5 as stated: max_cutoff() is the maximum cutoff over all stored terms,
\* whatever their flags and cutoffs, and 0 for an empty registry.
C5_MaxCutoffIsMaximum ==
  (res.op = "max_cutoff" /\ OnlyTermsAdded) =>
    /\ res.st = "ok"
    /\ res.ret = IF fun = <<>> THEN 0
                 ELSE SetMax({fun[k].cutoff : k \in 1..Len(fun)})

\* C5 amended: max_cutoff() is the greater of 0 and the maximum cutoff over
\* all stored terms, whatever their flags.
C5_MaxCutoffIsMaximumOrZero ==
  res.op = "max_cutoff" =>
    /\ res.st = "ok"
    /\ res.ret = SetMax({0} \cup {fun[k].cutoff : k \in 1..Len(fun)})

C5_Witness ==
  /\ res.op = "max_cutoff"
  /\ SizesAgree
  /\ Len(fun) = 3
  /\ enabled = <<TRUE, FALSE, TRUE>>
  /\ fun[1].cutoff = 2 /\ fun[2].cutoff = 4 /\ fun[3].cutoff = -1
  /\ res.ret = 4

\* C6: with as many flags as terms, get_names(enabled_only, out) leaves
\* what out held in place and appends, in registration order, every name
\* when enabled_only is false and the names of the enabled terms when it is
\* true.
C6_GetNamesAppends ==
  (res.op = "get_names" /\ SizesAgree) =>
    LET kept == Kept(enabled)
        names == IF res.enabled_only
                   THEN [j \in 1..Len(kept) |-> fun[kept[j]].name]
                   ELSE [k \in 1..Len(fun) |-> fun[k].name]
    IN /\ res.st = "ok"
       /\ res.out = res.out0 \o names

C6_Witness ==
  /\ res.op = "get_names" /\ res.st = "ok" /\ SizesAgree
  /\ res.enabled_only
  /\ res.out0 = <<"prior">>
  /\ enabled = <<TRUE, FALSE, TRUE>>
  /\ res.out = <<"prior", "gauss", "custom">>

(***************************************************************************)
(* terms: the aggregate of five registries, and factors.                   *)
(***************************************************************************)
Kinds == {"distance_additive_terms", "usable_terms", "additive_terms",
          "intermolecular_terms", "conf_independent_terms"}

\* the term object a call of the aggregate's add allocates for a kind
TermOf(kind) == [name |-> kind]
TermPtrs(kind) == {NULL, New(TermOf(kind))}

\* the registry an add call leaves behind
Stored(r) == [enabled |-> r.enabled, fun |-> r.fun]

terms_add_distance_additive(tt, e, p) ==
  [tt EXCEPT !.distance_additive_terms = Stored(term_set_add(@, e, p))]

\* faulty variant: the usable overload stores into the distance-additive registry
terms_add_usable_misrouted(tt, e, p) ==
  [tt EXCEPT !.distance_additive_terms = Stored(term_set_add(@, e, p))]

terms_add_usable(tt, e, p) ==
  [tt EXCEPT !.usable_terms = Stored(term_set_add(@, e, p))]

terms_add_additive(tt, e, p) ==
  [tt EXCEPT !.additive_terms = Stored(term_set_add(@, e, p))]

terms_add_intermolecular(tt, e, p) ==
  [tt EXCEPT !.intermolecular_terms = Stored(term_set_add(@, e, p))]

terms_add_conf_independent(tt, e, p) ==
  [tt EXCEPT !.conf_independent_terms = Stored(term_set_add(@, e, p))]

\* size_internal: the terms of the distance-additive, usable and additive
\* registries
terms_size_internal(tt) ==
  term_set_size(tt.distance_additive_terms) + term_set_size(tt.usable_terms)
    + term_set_size(tt.additive_terms)

terms_size(tt) ==
  terms_size_internal(tt) + term_set_size(tt.intermolecular_terms)

\* one more registry's filter on the shared iterator, for every outcome so far
FilterNext(outcomes, s, v) ==
  UNION { IF o.st = "ok" THEN term_set_filter(s, v, o.in, o.out) ELSE {o} :
          o \in outcomes }

FilterStart == {[st |-> "ok", out |-> <<>>, in |-> 1]}

\* filter_external: the registry filter across the four registries behind
\* size(), on one iterator over v
terms_filter_external(tt, v) ==
  FilterNext(FilterNext(FilterNext(FilterNext(FilterStart,
    tt.distance_additive_terms, v), tt.usable_terms, v),
    tt.additive_terms, v), tt.intermolecular_terms, v)

\* filter_internal: the same across the three registries behind
\* size_internal()
terms_filter_internal(tt, v) ==
  FilterNext(FilterNext(FilterNext(FilterStart,
    tt.distance_additive_terms, v), tt.usable_terms, v),
    tt.additive_terms, v)

\* filter(factors): filter_external on f.e, then filter_internal on f.i
terms_filter(tt, f) ==
  UNION { IF oe.st # "ok"
            THEN {[st |-> oe.st, out |-> [e |-> oe.out, i |-> <<>>],
                   in_e |-> oe.in, in_i |-> 1]}
            ELSE {[st |-> oi.st, out |-> [e |-> oe.out, i |-> oi.out],
                   in_e |-> oe.in, in_i |-> oi.in] :
                  oi \in terms_filter_internal(tt, f.i)} :
          oe \in terms_filter_external(tt, f.e) }

\* the flags pushed so far, over the five registries: one per add call
TotalFlags(tt) ==
  Len(tt.distance_additive_terms.enabled) + Len(tt.usable_terms.enabled)
    + Len(tt.additive_terms.enabled) + Len(tt.intermolecular_terms.enabled)
    + Len(tt.conf_independent_terms.enabled)

\* per-term values sized to the aggregate: position k holds base + k
FactorsFor(tt, base) ==
  [e |-> [k \in 1..terms_size(tt) |-> base + k],
   i |-> [k \in 1..terms_size_internal(tt) |-> base + k]]

Added(kind, p) ==
  /\ added' = [added EXCEPT ![kind] = IF p = NULL THEN @ ELSE @ + 1]
  /\ res' = [op |-> "terms_add", kind |-> kind, null |-> (p = NULL)]
  /\ UNCHANGED <<enabled, fun, hist, impl>>

AddDistanceAdditive ==
  /\ TotalFlags(t) < MaxAdds
  /\ \E e \in Weights, p \in TermPtrs("distance_additive_terms") :
       /\ t' = terms_add_distance_additive(t, e, p)
       /\ Added("distance_additive_terms", p)

AddUsable ==
  /\ TotalFlags(t) < MaxAdds
  /\ \E e \in Weights, p \in TermPtrs("usable_terms") :
       /\ t' = terms_add_usable(t, e, p)
       /\ Added("usable_terms", p)

AddAdditive ==
  /\ TotalFlags(t) < MaxAdds
  /\ \E e \in Weights, p \in TermPtrs("additive_terms") :
       /\ t' = terms_add_additive(t, e, p)
       /\ Added("additive_terms", p)

AddIntermolecular ==
  /\ TotalFlags(t) < MaxAdds
  /\ \E e \in Weights, p \in TermPtrs("intermolecular_terms") :
       /\ t' = terms_add_intermolecular(t, e, p)
       /\ Added("intermolecular_terms", p)

AddConfIndependent ==
  /\ TotalFlags(t) < MaxAdds
  /\ \E e \in Weights, p \in TermPtrs("conf_independent_terms") :
       /\ t' = terms_add_conf_independent(t, e, p)
       /\ Added("conf_independent_terms", p)

TermsSize ==
  /\ res' = [op |-> "size", ret |-> terms_size(t),
             internal |-> terms_size_internal(t)]
  /\ UNCHANGED <<enabled, fun, hist, t, added, impl>>

\* filter on factors that hold one value per term
TermsFilter ==
  /\ \E base \in {0, 1} :
       \E o \in terms_filter(t, FactorsFor(t, base)) :
         res' = [op |-> "filter", in |-> FactorsFor(t, base)] @@ o
  /\ UNCHANGED <<enabled, fun, hist, t, added, impl>>

\* filter again, on the factors the last filter returned
TermsFilterAgain ==
  /\ res.op = "filter"
  /\ res.st = "ok"
  /\ \E o \in terms_filter(t, res.out) :
       res' = [op |-> "refilter", in |-> res.out] @@ o
  /\ UNCHANGED <<enabled, fun, hist, t, added, impl>>

NextTerms ==
  \/ AddDistanceAdditive
  \/ AddUsable
  \/ AddAdditive
  \/ AddIntermolecular
  \/ AddConfIndependent
  \/ TermsSize
  \/ TermsFilter
  \/ TermsFilterAgain

SpecTerms == Init /\ [][NextTerms]_vars

(***************************************************************************)
(* Properties of the aggregate.                                            *)
(***************************************************************************)
ExternalKinds == {"distance_additive_terms", "usable_terms", "additive_terms",
                  "intermolecular_terms"}
InternalKinds == {"distance_additive_terms", "usable_terms", "additive_terms"}
AllEnabledIn(ks) ==
  \A k \in ks : /\ Len(t[k].enabled) = Len(t[k].fun)
                /\ \A j \in 1..Len(t[k].enabled) : t[k].enabled[j]
SomeDisabledIn(ks) ==
  /\ \A k \in ks : Len(t[k].enabled) = Len(t[k].fun)
  /\ \E k \in ks : \E j \in 1..Len(t[k].enabled) : ~t[k].enabled[j]

\* C3 as stated: filter applied to already-filtered factors succeeds and
\* returns them unchanged, also when some terms are disabled.
C3_FilterIdempotent ==
  res.op = "refilter" => (res.st = "ok" /\ res.out = res.in)

\* C3 amended: the second filter returns the filtered factors unchanged when
\* every term behind size() is enabled.  With a term disabled the filtered
\* group is shorter than the size() (size_internal()) positions the second
\* filter passes over, so a second filter that returns has moved its
\* iterator beyond the end of the group.
C3_FilterIdempotentWhenAllEnabled ==
  res.op = "refilter" =>
    /\ AllEnabledIn(ExternalKinds) => (res.st = "ok" /\ res.out = res.in)
    /\ res.st = "ok" =>
         /\ res.in_e = 1 + terms_size(t)
         /\ res.in_i = 1 + terms_size_internal(t)
    /\ SomeDisabledIn(ExternalKinds) => Len(res.in.e) < terms_size(t)
    /\ SomeDisabledIn(InternalKinds) => Len(res.in.i) < terms_size_internal(t)

C3_Witness ==
  /\ res.op = "refilter" /\ res.st = "ok"
  /\ AllEnabledIn(ExternalKinds)
  /\ terms_size(t) = 3
  /\ terms_size_internal(t) = 2
  /\ res.out = res.in
  /\ res.in.e = <<2, 3, 4>>

\* C10: add with a pointer to a term of one kind appends one term and one
\* flag to the registry of that kind and leaves the other four registries
\* as they were; so every registry holds as many terms as adds of its kind
\* were made, and size() is the sum of the sizes of the distance-additive,
\* usable, additive and intermolecular registries.
C10_Step ==
  /\ (res'.op = "terms_add" /\ ~res'.null) =>
       /\ Len(t'[res'.kind].fun) = Len(t[res'.kind].fun) + 1
       /\ Len(t'[res'.kind].enabled) = Len(t[res'.kind].enabled) + 1
       /\ t'[res'.kind].fun[Len(t'[res'.kind].fun)] = TermOf(res'.kind)
       /\ \A j \in Kinds \ {res'.kind} : t'[j] = t[j]
  /\ \A k \in Kinds : Len(t'[k].fun) = added'[k]
  /\ res'.op = "size" =>
       res'.ret = Len(t'.distance_additive_terms.fun) + Len(t'.usable_terms.fun)
                    + Len(t'.additive_terms.fun)
                    + Len(t'.intermolecular_terms.fun)

C10_AddRoutesByKind == [][C10_Step]_vars

C10_Witness ==
  /\ res.op = "size"
  /\ res.ret = 2
  /\ res.internal = 1
  /\ added.usable_terms = 1
  /\ added.intermolecular_terms = 1
  /\ added.conf_independent_terms = 1
  /\ \A k \in Kinds : Len(t[k].enabled) = Len(t[k].fun)

(***************************************************************************)
(* The evaluation contracts: charge_dependent, usable, factors.            *)
(***************************************************************************)
\* atom types, partial charges and distances
Smt == {1, 2}
Charges == {-1, 0, 2}
Dist == {1, 2}
Atoms == [sm : Smt, charge : Charges]
\* atom_base::get(): the projection of an atom on its type
get(a) == a.sm

\* A concrete term: what its eval_components and its two-type eval return
\* for each pair of types and distance, and whether it overrides the
\* two-type eval of usable at all.
Impls ==
  { [components |->
       [x \in Smt \X Smt \X Dist |->
          [type_dependent_only |-> k * x[3] + x[1],
           a_charge_dependent |-> x[2] + k,
           b_charge_dependent |-> x[1] * x[3],
           ab_charge_dependent |-> k + x[3]]],
     overrides |-> ov,
     types_eval |-> [x \in Smt \X Smt \X Dist |-> k * (x[1] + x[2] + x[2]) + x[3]]] :
    k \in {1, 2}, ov \in BOOLEAN }

\* the virtual eval_components of the term under evaluation
eval_components(t1, t2, r) == impl.components[<<t1, t2, r>>]

\* faulty variant: the two charges are swapped
charge_dependent_eval_swapped(a, b, r) ==
  LET c == eval_components(a.sm, b.sm, r) IN
    c.type_dependent_only
      + b.charge * c.a_charge_dependent
      + a.charge * c.b_charge_dependent
      + a.charge * b.charge * c.ab_charge_dependent

charge_dependent_eval(a, b, r) ==
  LET c == eval_components(a.sm, b.sm, r) IN
    c.type_dependent_only
      + a.charge * c.a_charge_dependent
      + b.charge * c.b_charge_dependent
      + a.charge * b.charge * c.ab_charge_dependent

\* faulty variant: the default returns its 0 without the check
usable_eval_default_silent(t1, t2, r) == [st |-> "ok", ret |-> 0]

\* usable::eval(smt, smt, fl) as usable defines it: VINA_CHECK(false), and
\* return 0 behind it
usable_eval_default(t1, t2, r) ==
  IF VINA_CHECK(FALSE) = "throw" THEN [st |-> "fail"]
  ELSE [st |-> "ok", ret |-> 0]

\* the virtual call eval(t1, t2, r): the override of the term when it has one
usable_eval_smt(t1, t2, r) ==
  IF impl.overrides
    THEN [st |-> "ok", ret |-> impl.types_eval[<<t1, t2, r>>]]
    ELSE usable_eval_default(t1, t2, r)

\* usable::eval(atom_base, atom_base, fl) forwards the two types
usable_eval_atoms(a, b, r) == usable_eval_smt(get(a), get(b), r)

factors_size(f) == Len(f.e) + Len(f.i)

\* faulty variant: the two branches of the conditional are swapped
factors_num_weights_min(f) ==
  IF Len(f.e) > Len(f.i) THEN Len(f.i) ELSE Len(f.e)

factors_num_weights(f) ==
  IF Len(f.e) > Len(f.i) THEN Len(f.e) ELSE Len(f.i)

RECURSIVE weighted_sum(_, _, _)
weighted_sum(g, weights, k) ==
  IF k > Len(g) THEN 0
  ELSE g[k] * weights[k] + weighted_sum(g, weights, k + 1)

\* factors::eval: fails on fewer weights than num_weights(); else the sum of
\* e[k]*weights[k], and of i[k]*weights[k] as well with include_internal.
\* A weights[k] read beyond the end of weights is undefined ("crash").
factors_eval(f, weights, include_internal) ==
  IF VINA_CHECK(Len(weights) >= factors_num_weights(f)) = "throw"
    THEN [st |-> "fail"]
    ELSE IF Len(f.e) > Len(weights)
              \/ (include_internal /\ Len(f.i) > Len(weights))
      THEN [st |-> "crash"]
      ELSE [st |-> "ok",
            ret |-> weighted_sum(f.e, weights, 1)
                      + (IF include_internal
                           THEN weighted_sum(f.i, weights, 1) ELSE 0)]

InitEval ==
  /\ InitRegistry
  /\ InitTerms
  /\ impl \in Impls
  /\ res = Idle

ChargeEval ==
  /\ \E a \in Atoms, b \in Atoms, r \in Dist :
       res' = [op |-> "charge_eval", a |-> a, b |-> b, r |-> r,
               ret |-> charge_dependent_eval(a, b, r)]
  /\ UNCHANGED <<enabled, fun, hist, t, added, impl>>

UsableEvalAtoms ==
  /\ \E a \in Atoms, b \in Atoms, r \in Dist :
       res' = [op |-> "usable_eval_atoms", a |-> a, b |-> b, r |-> r]
                @@ usable_eval_atoms(a, b, r)
  /\ UNCHANGED <<enabled, fun, hist, t, added, impl>>

UsableEvalTypes ==
  /\ \E t1 \in Smt, t2 \in Smt, r \in Dist :
       res' = [op |-> "usable_eval_smt", t1 |-> t1, t2 |-> t2, r |-> r]
                @@ usable_eval_smt(t1, t2, r)
  /\ UNCHANGED <<enabled, fun, hist, t, added, impl>>

FactorsEval ==
  /\ \E ne \in 0..MaxLen, ni \in 0..MaxLen, nw \in 0..MaxLen,
        include_internal \in BOOLEAN :
       LET f == [e |-> Ramp(ne, 0), i |-> Ramp(ni, 10)]
           weights == Ramp(nw, 0)
       IN res' = [op |-> "factors_eval", f |-> f, weights |-> weights,
                  include_internal |-> include_internal]
                   @@ factors_eval(f, weights, include_internal)
  /\ UNCHANGED <<enabled, fun, hist, t, added, impl>>

NextEval == ChargeEval \/ UsableEvalAtoms \/ UsableEvalTypes \/ FactorsEval

SpecEval == InitEval /\ [][NextEval]_vars

(***************************************************************************)
(* Properties of the evaluation contracts.                                 *)
(***************************************************************************)
\* C7: eval(a, b, r) of a charge-dependent term is
\* c.type_only + qa*c.a_charge + qb*c.b_charge + qa*qb*c.ab_charge with c
\* the components of the two atoms' types and r; c is the same for every
\* pair of charges.
C7_ChargeDecomposition ==
  res.op = "charge_eval" =>
    LET c == impl.components[<<res.a.sm, res.b.sm, res.r>>]
        qa == res.a.charge
        qb == res.b.charge
    IN /\ res.ret = c.type_dependent_only + qa * c.a_charge_dependent
                      + qb * c.b_charge_dependent
                      + (qa * qb) * c.ab_charge_dependent
       /\ \A a2 \in Atoms, b2 \in Atoms :
            (a2.sm = res.a.sm /\ b2.sm = res.b.sm) =>
              eval_components(a2.sm, b2.sm, res.r) = c

C7_Witness ==
  /\ res.op = "charge_eval"
  /\ res.a.charge = 2 /\ res.b.charge = -1
  /\ res.a.sm # res.b.sm
  /\ res.ret # impl.components[<<res.a.sm, res.b.sm, res.r>>].type_dependent_only

\* the greater of two lengths
Greater(m, n) == SetMax({m, n})

\* C8: factors.eval(weights, include_internal) fails whenever weights has
\* fewer entries than num_weights(), which is max(|e|, |i|), for both values
\* of include_internal.
C8_EvalFailsOnShortWeights ==
  res.op = "factors_eval" =>
    /\ factors_num_weights(res.f) = Greater(Len(res.f.e), Len(res.f.i))
    /\ Len(res.weights) < Greater(Len(res.f.e), Len(res.f.i)) =>
         (res.st = "fail" /\ "ret" \notin DOMAIN res)

C8_Witness ==
  /\ res.op = "factors_eval"
  /\ ~res.include_internal
  /\ Len(res.f.e) = 1 /\ Len(res.f.i) = 3 /\ Len(res.weights) = 2
  /\ res.st = "fail"

\* C9: evaluating a usable term that does not override the two-type eval,
\* directly or through the atom-based eval, raises the failure and never
\* returns 0 as a score.
C9_UnoverriddenEvalFails ==
  (res.op \in {"usable_eval_atoms", "usable_eval_smt"} /\ ~impl.overrides) =>
    (res.st = "fail" /\ "ret" \notin DOMAIN res)

C9_Witness ==
  /\ res.op = "usable_eval_atoms"
  /\ ~impl.overrides
  /\ res.st = "fail"

====
